---- MODULE Spec2Model ----
(***************************************************************************)
(* Orchestrator service of the carrier-vetting platform                    *)
(* (backend/services/orchestrator/app.py): the graph compiler              *)
(* (_topo_order), the direct invocation pipeline (invoke, execute_tool),   *)
(* the file-backed workflow store (workflow CRUD) and the workflow runner  *)
(* (run_workflow).                                                         *)
(*                                                                         *)
(* It also covers capability discovery (registry.py, AgentRegistry) and    *)
(* the API gateway's /invoke (gateway/app.py) with the usage tracking of   *)
(* the identity service (identity_service/app.py).                         *)
(*                                                                         *)
(* The specifications of the module share its variables:                   *)
(*   SpecTopo        _topo_order applied to bounded node and edge lists    *)
(*   SpecInvoke      one /invoke or /tools/{id}/execute request at a time  *)
(*   SpecStore       create / replace / get / list / delete on the store   *)
(*   SpecRun         one /workflows/{id}/run request over a stored workflow*)
(*   SpecRunFair     a run over cyclic graphs, with the scheduling of the  *)
(*                   event loop and capability calls that return           *)
(*   SpecBuild       the input one loop iteration builds for a capability  *)
(*   SpecConcurrent  a run, a direct invoke and store requests interleaved *)
(*   SpecDiscover    AgentRegistry.discover over bounded module lists      *)
(*   SpecGateway     /invoke requests through the API gateway              *)
(***************************************************************************)
EXTENDS Integers, Sequences, FiniteSets, TLC

VARIABLES
    \* graph compiler
    cNodes,      \* the node list handed to _topo_order
    cEdges,      \* the edge list handed to _topo_order
    cOrder,      \* the list it returned
    cpc,         \* "input" before the call, "done" after
    \* direct invocation (invoke, execute_tool)
    ipc,         \* position of the request handler
    ireq,        \* the request: kind (agent or tool), tenant, capability id
    iallowed,    \* _is_agent_allowed: "unset", "allowed", "denied", "raised"
    iexec,       \* outcome of agent.run / tool_executor.execute_tool
    irunCalls,   \* number of times the capability's run function was called
    imetrics,    \* the _send_metrics background task
    icalllog,    \* the call-log POST of carrier_outreach
    imeter,      \* the _meter_usage POST
    iresp,       \* the HTTP response, "none" while the handler runs
    \* workflow store
    files,       \* path -> stored JSON object
    dirs,        \* directories under /app/data/workflows that exist
    owner,       \* path -> tenant of the request that wrote the file (history)
    oplog,       \* the store requests served so far and their responses (history)
    \* workflow runner
    rpc,         \* position of run_workflow
    rreq,        \* tenant and workflow id of the run request
    rwf,         \* the workflow as loaded
    rorder,      \* the compiled order
    ridx,        \* index in rorder of the node being processed
    results,     \* node id -> output
    rcalls,      \* capability calls made by the run, in order (history)
    rfailed,     \* index in rorder of the node whose call failed, 0 if none
    rresp,       \* the HTTP response of the run
    subs,        \* identity service: tenant -> agents of its subscription
    registry,    \* agent ids registered at startup (read-only afterwards)
    emitted,     \* usage events the orchestrator has sent to a collector
    \* the input of one node's capability call
    bNode,       \* the node the loop iteration processes
    bEdges,      \* the edges of the workflow
    bResults,    \* the results recorded when the iteration starts
    bInput,      \* the input_payload handed to the capability
    bpc,         \* "input" before the iteration, "done" after
    \* capability discovery
    dModules,    \* what pkgutil.iter_modules yields, with each module's fate
    dpos,        \* index in dModules of the next module to load
    dpc,         \* "start", "scan", "done", or "fatal"
    \* API gateway and the identity service's credits
    gpc,         \* position of invoke_agent
    greq,        \* the request: how it authenticates
    gcredits,    \* identity service: credits the API key's user has left
    gtrack,      \* what track_service_usage returned or raised
    gforwarded,  \* requests the gateway forwarded to the orchestrator (history)
    gresp,       \* the HTTP response of the gateway
    gserved      \* number of gateway requests begun

vars == << cNodes, cEdges, cOrder, cpc,
           ipc, ireq, iallowed, iexec, irunCalls, imetrics, icalllog, imeter, iresp,
           files, dirs, owner, oplog,
           rpc, rreq, rwf, rorder, ridx, results, rcalls, rfailed, rresp,
           subs, registry, emitted,
           bNode, bEdges, bResults, bInput, bpc,
           dModules, dpos, dpc,
           gpc, greq, gcredits, gtrack, gforwarded, gresp, gserved >>

topoVars   == << cNodes, cEdges, cOrder, cpc >>
invokeVars == << ipc, ireq, iallowed, iexec, irunCalls, imetrics, icalllog, imeter, iresp >>
storeVars  == << files, dirs, owner, oplog >>
runVars    == << rpc, rreq, rwf, rorder, ridx, results, rcalls, rfailed, rresp >>
envVars    == << subs, registry, emitted >>
buildVars    == << bNode, bEdges, bResults, bInput, bpc >>
discoverVars == << dModules, dpos, dpc >>
gatewayVars  == << gpc, greq, gcredits, gtrack, gforwarded, gresp, gserved >>
\* the variables of the build, discovery and gateway parts
sideVars     == << buildVars, discoverVars, gatewayVars >>

(***************************************************************************)
(* Bounds of the model.                                                    *)
(***************************************************************************)
MaxNodes == 3
MaxEdges == 3

\* Python's None (dict.get of a missing key, an unset variable)
None == "None"

\* an empty dict
EmptyFn == [ x \in {} |-> None ]

Range(s) == { s[i] : i \in DOMAIN s }

SeqsUpTo(S, n) == UNION { [1..k -> S] : k \in 0..n }

(***************************************************************************)
(* Graph compiler: _topo_order(nodes, edges).                              *)
(***************************************************************************)

\* Ids used by the graph-compiler inputs.  An edge may name any string: an
\* id of TopoIds that the node list does not hold is an unknown id.
TopoIds == { "a", "b", "c" }

\* keys of {n["id"]: 0 for n in nodes}: a dict keeps the first position of
\* a repeated key
RECURSIVE DictKeys(_, _)
DictKeys(ids, acc) ==
    IF ids = << >> THEN acc
    ELSE IF Head(ids) \in Range(acc) THEN DictKeys(Tail(ids), acc)
    ELSE DictKeys(Tail(ids), Append(acc, Head(ids)))

NodeIdList(nodes) == [ i \in DOMAIN nodes |-> nodes[i].id ]

\* indeg[t] after "for e in edges: if t in indeg: indeg[t] += 1"
InDegree(keys, edges, t) ==
    Cardinality({ i \in DOMAIN edges : edges[i].target = t /\ t \in Range(keys) })

\* order = [nid for nid, d in indeg.items() if d == 0]
ZeroInDegree(keys, edges) ==
    LET Zero(k) == InDegree(keys, edges, k) = 0
    IN  SelectSeq(keys, Zero)

\* the single pass over the edges; seen is the set of ids placed so far
RECURSIVE EdgePass(_, _)
EdgePass(edges, order) ==
    IF edges = << >> THEN order
    ELSE LET e == Head(edges)
             seen == Range(order)
         IN  IF e.source \in seen /\ e.target \notin seen
             THEN EdgePass(Tail(edges), Append(order, e.target))
             ELSE EdgePass(Tail(edges), order)

\* "for n in nodes: if n['id'] not in seen: order.append(n['id'])";
\* seen is not updated by this loop
RECURSIVE FallbackAppend(_, _, _)
FallbackAppend(ids, seen, order) ==
    IF ids = << >> THEN order
    ELSE IF Head(ids) \notin seen
         THEN FallbackAppend(Tail(ids), seen, Append(order, Head(ids)))
         ELSE FallbackAppend(Tail(ids), seen, order)

\* a compiler without the fallback loop
TopoOrder_NoFallback(nodes, edges) ==
    EdgePass(edges, ZeroInDegree(DictKeys(NodeIdList(nodes), << >>), edges))

TopoOrder(nodes, edges) ==
    LET ids    == NodeIdList(nodes)
        keys   == DictKeys(ids, << >>)
        order0 == ZeroInDegree(keys, edges)
        order1 == EdgePass(edges, order0)
    IN  FallbackAppend(ids, Range(order1), order1)

TopoNode(id) == [ id |-> id ]
TopoEdge(s, t) == [ source |-> s, target |-> t ]

TopoNodeLists == { [ i \in DOMAIN l |-> TopoNode(l[i]) ] : l \in SeqsUpTo(TopoIds, MaxNodes) }
TopoEdgeLists == SeqsUpTo({ TopoEdge(s, t) : s \in TopoIds, t \in TopoIds }, MaxEdges)

(***************************************************************************)
(* Workflow store: one JSON file per workflow under                        *)
(* /app/data/workflows/<tenant_id>/<wf_id>.json.                           *)
(*                                                                         *)
(* A string used as a path (a tenant id, a workflow id) is the sequence of *)
(* its "/"-separated segments: "../A/w1" is << "..", "A", "w1" >>, and a   *)
(* string that starts with "/" has "" as its first segment.  A JSON object *)
(* is a function from its keys.  The request bodies are JSON-decoded, so   *)
(* json.dump followed by json.load gives the object back.                  *)
(***************************************************************************)
MaxOps == 3

WorkflowsRoot == << "app", "data", "workflows" >>

\* os.path.join(a, b): an absolute b discards a
PathJoin(a, b) == IF Len(b) > 0 /\ b[1] = "" THEN b ELSE a \o b

\* the directory a path names once the file system has followed its
\* "..", "." and empty segments (paths are absolute, from "/")
RECURSIVE ResolvePath(_, _)
ResolvePath(segs, acc) ==
    IF segs = << >> THEN acc
    ELSE LET h == Head(segs)
         IN  IF h = ".."
             THEN ResolvePath(Tail(segs),
                              IF acc = << >> THEN acc ELSE SubSeq(acc, 1, Len(acc) - 1))
             ELSE IF h \in { ".", "" } THEN ResolvePath(Tail(segs), acc)
             ELSE ResolvePath(Tail(segs), Append(acc, h))

\* every directory the file system walks through on the way along a path
PathPrefixes(segs) == { ResolvePath(SubSeq(segs, 1, k), << >>) : k \in 1..Len(segs) }

\* _wf_dir: base = os.path.join("/app", "data", "workflows", tenant_id)
WfDirRaw(tenant) == PathJoin(WorkflowsRoot, tenant)

\* os.makedirs(base, exist_ok=True): the directories that exist afterwards
MakeDirs(ds, tenant) == ds \cup PathPrefixes(WfDirRaw(tenant))

WfDir(tenant) == ResolvePath(WfDirRaw(tenant), << >>)

\* _wf_path: os.path.join(_wf_dir(tenant_id), f"{wf_id}.json"), before the
\* file system resolves it; the last segment carries the ".json" suffix
WfPathRaw(tenant, wf) == PathJoin(WfDirRaw(tenant), wf)

Front(s) == SubSeq(s, 1, Len(s) - 1)
Last(s) == s[Len(s)]

\* the file the path names: the resolved directory and the file name
\* (f"{wf_id}.json" is a plain name even when wf_id ends in "..")
WfPath(tenant, wf) ==
    LET raw == WfPathRaw(tenant, wf)
    IN  Append(ResolvePath(Front(raw), << >>), Last(raw))

\* open(path, "w") succeeds when every directory on the way exists
CanOpen(ds, tenant, wf) == PathPrefixes(Front(WfPathRaw(tenant, wf))) \subseteq ds

\* os.path.exists(path)
PathExists(fs, ds, tenant, wf) ==
    /\ CanOpen(ds, tenant, wf)
    /\ WfPath(tenant, wf) \in DOMAIN fs

\* dict.get(key, default)
DictGet(d, k, default) == IF k \in DOMAIN d THEN d[k] ELSE default

\* a stamping that keeps the id, tenant_id and updated_at the payload brings
\* (setdefault instead of assignment)
StampWorkflow_KeepsPayloadKeys(payload, wf, tenant, now) ==
    [ k \in DOMAIN payload \cup { "id", "tenant_id", "updated_at" } |->
        IF k \in DOMAIN payload THEN payload[k]
        ELSE IF k = "id" THEN wf
        ELSE IF k = "tenant_id" THEN tenant
        ELSE now ]

\* obj = dict(payload); obj["id"] = wf_id; obj["tenant_id"] = tenant_id;
\* obj["updated_at"] = time.strftime(...)
StampWorkflow(payload, wf, tenant, now) ==
    [ k \in DOMAIN payload \cup { "id", "tenant_id", "updated_at" } |->
        IF k = "id" THEN wf
        ELSE IF k = "tenant_id" THEN tenant
        ELSE IF k = "updated_at" THEN now
        ELSE payload[k] ]

\* a function with one more (or one replaced) entry, and with one fewer
FnPut(f, k, v) == [ x \in DOMAIN f \cup {k} |-> IF x = k THEN v ELSE f[x] ]
FnDel(f, k) == [ x \in DOMAIN f \ {k} |-> f[x] ]

\* the owners (history) of a set of files
OwnersOf(own, paths) == { own[p] : p \in paths \cap DOMAIN own }

\* "if not tenant_id": the header is missing or empty
NoTenant == << >>
TenantA == << "A" >>
TenantB == << "B" >>
StoreTenants == { TenantA, TenantB, NoTenant }

\* ids taken from the URL path: one segment, never empty
PathWfIds == { << "w1" >> }
\* f"wf_{uuid.uuid4().hex[:8]}": an id no file of the tenant has yet
GenIds == { << "wf_0a1b2c3d" >> }

\* request bodies of create and replace: any JSON object, which may carry
\* its own id, tenant_id and updated_at
StorePayloads ==
    { [ name |-> "p" ],
      [ name |-> "q", id |-> << "w1" >>, tenant_id |-> TenantB ],
      [ name |-> "r", id |-> << "..", "A", "w1" >>, updated_at |-> 0 ] }

\* time.strftime("%Y-%m-%dT%H:%M:%SZ"): the wall clock, to the second
Stamps == { 1, 2 }

StoreEntry(op, tenant, wf, arg, status, body, touched, owners) ==
    [ op |-> op, tenant |-> tenant, wf |-> wf, arg |-> arg, status |-> status,
      body |-> body, touched |-> touched, owners |-> owners ]

NoArg == [ none |-> TRUE ]
Detail(text) == [ detail |-> text ]
TenantRequired == Detail("X-Tenant-Id header is required")

\* wf_id = payload.get("id") or f"wf_{uuid.uuid4().hex[:8]}"
CreateIds(fs, tenant, payload) ==
    IF "id" \in DOMAIN payload /\ payload["id"] # << >>
    THEN { payload["id"] }
    ELSE { g \in GenIds : WfPath(tenant, g) \notin DOMAIN fs }

\* _save_workflow, with the response of the handler that called it
SaveWorkflow(op, tenant, wf, payload, now) ==
    LET ds   == MakeDirs(dirs, tenant)
        path == WfPath(tenant, wf)
        obj  == StampWorkflow(payload, wf, tenant, now)
    IN  /\ dirs' = ds
        /\ IF CanOpen(ds, tenant, wf)
           THEN /\ files' = FnPut(files, path, obj)
                /\ owner' = FnPut(owner, path, tenant)
                /\ oplog' = Append(oplog,
                       StoreEntry(op, tenant, wf, payload, 200, [ id |-> wf ],
                                  {path}, OwnersOf(owner, {path})))
           ELSE \* open() raises FileNotFoundError: an unhandled exception
                /\ UNCHANGED << files, owner >>
                /\ oplog' = Append(oplog,
                       StoreEntry(op, tenant, wf, payload, 500,
                                  Detail("Internal Server Error"), {}, {}))

Rejected400(op, wf, arg) ==
    /\ oplog' = Append(oplog, StoreEntry(op, NoTenant, wf, arg, 400, TenantRequired, {}, {}))
    /\ UNCHANGED << files, dirs, owner >>

\* POST /workflows
CreateWorkflow(tenant, payload, now) ==
    /\ Len(oplog) < MaxOps
    /\ IF tenant = NoTenant
       THEN Rejected400("create", << >>, payload)
       ELSE \E wf \in CreateIds(files, tenant, payload) :
                SaveWorkflow("create", tenant, wf, payload, now)
    /\ UNCHANGED << sideVars, topoVars, invokeVars, runVars, envVars >>

\* PUT /workflows/{wf_id}
UpdateWorkflow(tenant, wf, payload, now) ==
    /\ Len(oplog) < MaxOps
    /\ IF tenant = NoTenant
       THEN Rejected400("update", wf, payload)
       ELSE SaveWorkflow("update", tenant, wf, payload, now)
    /\ UNCHANGED << sideVars, topoVars, invokeVars, runVars, envVars >>

\* _load_workflow: the status and body of the lookup
LoadStatus(fs, ds, tenant, wf) == IF PathExists(fs, ds, tenant, wf) THEN 200 ELSE 404
LoadBody(fs, ds, tenant, wf) ==
    IF PathExists(fs, ds, tenant, wf) THEN fs[WfPath(tenant, wf)]
    ELSE Detail("Workflow not found")

\* GET /workflows/{wf_id}
GetWorkflow(tenant, wf) ==
    /\ Len(oplog) < MaxOps
    /\ IF tenant = NoTenant
       THEN Rejected400("get", wf, NoArg)
       ELSE LET ds   == MakeDirs(dirs, tenant)
                path == WfPath(tenant, wf)
                hit  == IF PathExists(files, ds, tenant, wf) THEN {path} ELSE {}
            IN  /\ dirs' = ds
                /\ oplog' = Append(oplog,
                       StoreEntry("get", tenant, wf, NoArg,
                                  LoadStatus(files, ds, tenant, wf),
                                  LoadBody(files, ds, tenant, wf),
                                  hit, OwnersOf(owner, hit)))
                /\ UNCHANGED << files, owner >>
    /\ UNCHANGED << sideVars, topoVars, invokeVars, runVars, envVars >>

\* a delete that reports a missing file
DeleteStatus_NotFoundWhenAbsent(hit) == IF hit = {} THEN 404 ELSE 200

\* delete_workflow returns {"deleted": True} whether or not the file existed
DeleteStatus(hit) == 200

\* DELETE /workflows/{wf_id}
DeleteWorkflow(tenant, wf) ==
    /\ Len(oplog) < MaxOps
    /\ IF tenant = NoTenant
       THEN Rejected400("delete", wf, NoArg)
       ELSE LET ds   == MakeDirs(dirs, tenant)
                path == WfPath(tenant, wf)
                hit  == IF PathExists(files, ds, tenant, wf) THEN {path} ELSE {}
            IN  /\ dirs' = ds
                /\ files' = IF hit = {} THEN files ELSE FnDel(files, path)
                /\ owner' = IF hit = {} THEN owner ELSE FnDel(owner, path)
                /\ oplog' = Append(oplog,
                       StoreEntry("delete", tenant, wf, NoArg, DeleteStatus(hit),
                                  [ deleted |-> TRUE ],
                                  hit, OwnersOf(owner, hit)))
    /\ UNCHANGED << sideVars, topoVars, invokeVars, runVars, envVars >>

\* the entry list_workflows builds from one file
Summary(obj) ==
    [ id |-> DictGet(obj, "id", << >>), name |-> DictGet(obj, "name", None),
      updated_at |-> DictGet(obj, "updated_at", 0) ]

\* sorted(items, key=updated_at, reverse=True) over os.listdir's arbitrary
\* order: any arrangement of the directory's files, newest first
Listings(fs, dirp) ==
    LET inDir == { q \in DOMAIN fs : Front(q) = dirp }
        n     == Cardinality(inDir)
    IN  { l \in [1..n -> inDir] :
            /\ \A i, j \in 1..n : i # j => l[i] # l[j]
            /\ \A i, j \in 1..n :
                   i < j => Summary(fs[l[i]]).updated_at >= Summary(fs[l[j]]).updated_at }

\* GET /workflows
ListWorkflows(tenant) ==
    /\ Len(oplog) < MaxOps
    /\ IF tenant = NoTenant
       THEN Rejected400("list", << >>, NoArg)
       ELSE \E l \in Listings(files, WfDir(tenant)) :
                /\ dirs' = MakeDirs(dirs, tenant)
                /\ oplog' = Append(oplog,
                       StoreEntry("list", tenant, << >>, NoArg, 200,
                                  [ workflows |-> [ i \in DOMAIN l |-> Summary(files[l[i]]) ] ],
                                  Range(l), OwnersOf(owner, Range(l))))
                /\ UNCHANGED << files, owner >>
    /\ UNCHANGED << sideVars, topoVars, invokeVars, runVars, envVars >>

(***************************************************************************)
(* Direct invocation: POST /invoke and POST /tools/{tool_id}/execute.      *)
(*                                                                         *)
(* A request handler is a coroutine: it runs from one await to the next,   *)
(* and ipc is the await it is suspended at.  An outgoing HTTP call is      *)
(* "pending" from the moment it is sent until the collaborator answers or  *)
(* the client's timeout fires.                                             *)
(***************************************************************************)
InvokeAgentIds == { "carrier_vetting", "carrier_outreach", "no_such_agent" }
ToolIds == { "slack" }
InvokeTenants == { TenantA, NoTenant }

\* how a collaborator answers a POST: a 2xx status, a status >= 400, or no
\* answer (connection error, or the httpx timeout)
PostOutcomes == { "accepted", "rejected", "unreachable" }

\* how the identity service answers GET /tenants/{id}/subscriptions
IdentityOutcomes == { "ok", "error_status", "unreachable" }

\* what the capability's run function does
ExecOutcomes == { "ok", "raise" }

\* the value an agent or a tool returns
AgentOutput(kind, id) == [ kind |-> kind, producer |-> id ]

\* _is_agent_allowed, given the answer of the identity service:
\* status >= 400 -> False, otherwise "*" in agents or agent_id in agents
IsAgentAllowed(outcome, agents, agent_id) ==
    /\ outcome = "ok"
    /\ ("*" \in agents \/ agent_id \in agents)

\* _is_agent_allowed has no try/except: a failed request raises out of
\* invoke, which the framework answers with 500
IdentityRaises(outcome) == outcome = "unreachable"

\* an invoke that ignores the result of the entitlement check
InvokeDenies_Never(allowed) == FALSE

\* "if not allowed: raise HTTPException(status_code=403, ...)"
InvokeDenies(allowed) == ~allowed

\* the try/except of _meter_usage and of the call-log block: whether a
\* failed POST raises into the handler ("except Exception" catches it)
MeterUsageRaises_Propagates(outcome) == outcome = "unreachable"
MeterUsageRaises(outcome) == FALSE
CallLogRaises(outcome) == FALSE

UsageEvent(sink, kind, id, tenant, success) ==
    [ sink |-> sink, kind |-> kind, id |-> id, tenant |-> tenant, success |-> success ]
\* _meter_usage's payload carries no success flag
MeterEvent(id, tenant) == [ sink |-> "meter", id |-> id, tenant |-> tenant ]

Response(status, body) == [ status |-> status, body |-> body ]
NoResponse == Response(0, NoArg)

InvokeOff ==
    /\ ipc = "idle"
    /\ ireq = NoArg
    /\ iallowed = "unset"
    /\ iexec = "unset"
    /\ irunCalls = 0
    /\ imetrics = "none"
    /\ icalllog = "none"
    /\ imeter = "none"
    /\ iresp = NoResponse

InvokeRespond(status, body) ==
    /\ iresp' = Response(status, body)
    /\ ipc' = "done"

\* invoke, up to its first await: header check, registry lookup, and the
\* subscription request is sent
InvokeBegin(tenant, agent_id) ==
    /\ ipc = "idle"
    /\ ireq' = [ kind |-> "agent", tenant |-> tenant, id |-> agent_id ]
    /\ IF tenant = NoTenant
       THEN InvokeRespond(400, TenantRequired)
       ELSE IF agent_id \notin registry
       THEN InvokeRespond(404, Detail("Agent not found"))
       ELSE /\ ipc' = "entitle"
            /\ UNCHANGED iresp
    /\ UNCHANGED << iallowed, iexec, irunCalls, imetrics, icalllog, imeter >>
    /\ UNCHANGED << sideVars, topoVars, storeVars, runVars, envVars >>

\* the subscription request returns; when allowed, agent.run is called
\* (the ElevenLabs settings lookup in between only fills the context)
EntitleReturn(outcome) ==
    /\ ipc = "entitle"
    /\ IF IdentityRaises(outcome)
       THEN /\ InvokeRespond(500, Detail("Internal Server Error"))
            /\ iallowed' = "raised"
            /\ UNCHANGED irunCalls
       ELSE LET allowed == IsAgentAllowed(outcome, subs[ireq.tenant], ireq.id)
            IN  /\ iallowed' = (IF allowed THEN "allowed" ELSE "denied")
                /\ IF InvokeDenies(allowed)
                   THEN /\ InvokeRespond(403, Detail("Subscription does not allow this agent"))
                        /\ UNCHANGED irunCalls
                   ELSE /\ ipc' = "exec"
                        /\ irunCalls' = irunCalls + 1
                        /\ UNCHANGED iresp
    /\ UNCHANGED << ireq, iexec, imetrics, icalllog, imeter >>
    /\ UNCHANGED << sideVars, topoVars, storeVars, runVars, envVars >>

\* "await _meter_usage(tenant_id, body.agent_id, usage)": the POST is sent
StartMeter ==
    /\ imeter' = "pending"
    /\ ipc' = "meter"

\* agent.run returns or raises.  On success the metrics task is created,
\* then the call log is posted (carrier_outreach only), then the meter.
ExecReturn(outcome) ==
    /\ ipc = "exec"
    /\ iexec' = outcome
    /\ IF outcome = "raise"
       THEN /\ InvokeRespond(500, Detail("Agent execution failed"))
            /\ UNCHANGED << imetrics, icalllog, imeter, emitted >>
       ELSE /\ imetrics' = "pending"
            /\ UNCHANGED iresp
            /\ IF ireq.id = "carrier_outreach"
               THEN /\ icalllog' = "pending"
                    /\ ipc' = "calllog"
                    /\ UNCHANGED imeter
                    /\ emitted' = emitted \cup
                         { UsageEvent("metrics", "agent", ireq.id, ireq.tenant, TRUE),
                           UsageEvent("calllog", "agent", ireq.id, ireq.tenant, TRUE) }
               ELSE /\ UNCHANGED icalllog
                    /\ StartMeter
                    /\ emitted' = emitted \cup
                         { UsageEvent("metrics", "agent", ireq.id, ireq.tenant, TRUE),
                           MeterEvent(ireq.id, ireq.tenant) }
    /\ UNCHANGED << ireq, iallowed, irunCalls >>
    /\ UNCHANGED << sideVars, topoVars, storeVars, runVars, subs, registry >>

\* the call-log POST returns, or raises ("unreachable" is also a request
\* that could not be built or sent); then the meter POST is sent
CallLogReturn(outcome) ==
    /\ ipc = "calllog"
    /\ icalllog' = outcome
    /\ IF CallLogRaises(outcome)
       THEN /\ InvokeRespond(500, Detail("Internal Server Error"))
            /\ UNCHANGED << imeter, emitted >>
       ELSE /\ StartMeter
            /\ emitted' = emitted \cup { MeterEvent(ireq.id, ireq.tenant) }
            /\ UNCHANGED iresp
    /\ UNCHANGED << ireq, iallowed, iexec, irunCalls, imetrics >>
    /\ UNCHANGED << sideVars, topoVars, storeVars, runVars, subs, registry >>

\* the meter POST returns; invoke returns its AgentInvokeResponse
MeterReturn(outcome) ==
    /\ ipc = "meter"
    /\ imeter' = outcome
    /\ IF MeterUsageRaises(outcome)
       THEN InvokeRespond(500, Detail("Internal Server Error"))
       ELSE InvokeRespond(200, [ agent_id |-> ireq.id,
                                  output |-> AgentOutput("agent", ireq.id),
                                  usage |-> "duration_ms" ])
    /\ UNCHANGED << ireq, iallowed, iexec, irunCalls, imetrics, icalllog >>
    /\ UNCHANGED << sideVars, topoVars, storeVars, runVars, envVars >>

\* the background task _send_metrics finishes, whatever the handler does
MetricsReturn(outcome) ==
    /\ imetrics = "pending"
    /\ imetrics' = outcome
    /\ UNCHANGED << ipc, ireq, iallowed, iexec, irunCalls, icalllog, imeter, iresp >>
    /\ UNCHANGED << sideVars, topoVars, storeVars, runVars, envVars >>

\* execute_tool, up to its await: header check, tool_executor is called
ToolBegin(tenant, tool_id) ==
    /\ ipc = "idle"
    /\ ireq' = [ kind |-> "tool", tenant |-> tenant, id |-> tool_id ]
    /\ IF tenant = NoTenant
       THEN /\ InvokeRespond(400, TenantRequired)
            /\ UNCHANGED irunCalls
       ELSE /\ ipc' = "toolexec"
            /\ irunCalls' = irunCalls + 1
            /\ UNCHANGED iresp
    /\ UNCHANGED << iallowed, iexec, imetrics, icalllog, imeter >>
    /\ UNCHANGED << sideVars, topoVars, storeVars, runVars, envVars >>

\* tool_executor.execute_tool returns or raises
ToolReturn(outcome) ==
    /\ ipc = "toolexec"
    /\ iexec' = outcome
    /\ IF outcome = "raise"
       THEN /\ InvokeRespond(500, Detail("Tool execution failed"))
            /\ UNCHANGED << imetrics, emitted >>
       ELSE /\ imetrics' = "pending"
            /\ emitted' = emitted \cup
                 { UsageEvent("metrics", "tool", ireq.id, ireq.tenant, TRUE) }
            /\ InvokeRespond(200, AgentOutput("tool", ireq.id))
    /\ UNCHANGED << ireq, iallowed, irunCalls, icalllog, imeter >>
    /\ UNCHANGED << sideVars, topoVars, storeVars, runVars, subs, registry >>

(***************************************************************************)
(* Workflow runner: POST /workflows/{wf_id}/run.                           *)
(*                                                                         *)
(* A node is [id, type, data]; data is the node's configuration dict.  A   *)
(* value kept in results is a record with a kind field.                    *)
(***************************************************************************)
MaxRunNodes == 3
MaxRunEdges == 3

NoneVal == [ kind |-> "none" ]

\* the elif chain of the "custom" branch, in its order
AgentKeywords ==
    << "carrier_outreach", "carrier_search", "carrier_vetting", "api_agent",
       "data_transformer", "freight_insights", "inventory_management",
       "freight_procurement", "transportation_expert", "freight_audit_pay",
       "demand_forecasting", "route_optimization", "real_time_tracking",
       "warehouse_automation", "o365_lead_extractor", "custom_agent" >>

\* the else branch: "Direct type mapping for backward compatibility"
DirectTypes == { "api_agent", "carrier_outreach", "carrier_vetting", "carrier_search" }

\* data.get("label", "").lower().replace(" ", "_"), on the labels in use
NormLabel(label) ==
    CASE label = "Carrier Vetting"  -> "carrier_vetting"
      [] label = "Data Transformer" -> "data_transformer"
      [] label = "Mystery Step"     -> "mystery_step"
      [] OTHER                     -> label

\* the keywords of the chain that are substrings of a string in use
Mentions(str) ==
    CASE str = "carrier_vetting"     -> { "carrier_vetting" }
      [] str = "data_transformer"    -> { "data_transformer" }
      [] str = "carrier_search_2"    -> { "carrier_search" }
      [] OTHER                       -> {}

\* the agent id a node resolves to, None when the node is skipped
ResolveAgent(node) ==
    LET data  == node.data
        label == NormLabel(DictGet(data, "label", ""))
        hits  == { i \in DOMAIN AgentKeywords :
                     AgentKeywords[i] \in Mentions(node.id) \cup Mentions(label) }
    IN  IF node.type = "custom"
        THEN IF hits = {} THEN None
             ELSE AgentKeywords[CHOOSE i \in hits : \A j \in hits : i <= j]
        ELSE IF node.type \in DirectTypes THEN node.type
        ELSE None

\* id_to_node = {n["id"]: n for n in nodes}: the last node of an id wins
HasNode(nodes, nid) == \E i \in DOMAIN nodes : nodes[i].id = nid
NodeById(nodes, nid) ==
    nodes[CHOOSE i \in DOMAIN nodes :
            /\ nodes[i].id = nid
            /\ \A j \in DOMAIN nodes : nodes[j].id = nid => j <= i]

\* prev_ids = [e.get("source") for e in edges if e.get("target") == nid]
PrevIds(edges, nid) ==
    LET IsIn(e) == e.target = nid
        into == SelectSeq(edges, IsIn)
    IN  [ i \in DOMAIN into |-> into[i].source ]

\* a dispatcher that takes the first listed edge into the node
PrevId_FirstEdge(edges, nid) ==
    LET q == PrevIds(edges, nid) IN IF q = << >> THEN None ELSE q[1]

\* prev_ids[-1] if prev_ids else None
PrevId(edges, nid) ==
    LET p == PrevIds(edges, nid) IN IF p = << >> THEN None ELSE p[Len(p)]

\* prev_result = results.get(prev_ids[-1]) if prev_ids else None
PrevResult(res, edges, nid) == DictGet(res, PrevId(edges, nid), NoneVal)

TriggerResult_DropsPayload(node) == [ kind |-> "trigger", payload |-> None ]

\* results[nid] of a trigger node and of an output node
TriggerResult(node) ==
    [ kind |-> "trigger", payload |-> DictGet(node.data, "payload", None) ]
OutputResult(res, edges, nid) ==
    [ kind |-> "output", from |-> PrevId(edges, nid), value |-> PrevResult(res, edges, nid) ]

\* "if prev_result:" -- None and the empty dict are false
Truthy(value) == value # NoneVal /\ DOMAIN value # {}

\* input_data of a data_transformer node
TransformerInputData(prev) ==
    IF ~Truthy(prev) THEN EmptyFn
    ELSE IF "carriers" \in DOMAIN prev THEN prev
    ELSE IF "output" \in DOMAIN prev /\ "carriers" \in DOMAIN prev["output"]
         THEN prev["output"]
    ELSE prev

\* input_payload before the prev key is considered: the capability-specific
\* input shape built from the node's data
ShapeInput(agent, data, prev) ==
    CASE agent = "carrier_search" ->
           [ lead |-> [ source      |-> DictGet(data, "source", ""),
                        destination |-> DictGet(data, "destination", ""),
                        material    |-> DictGet(data, "material", ""),
                        quantity    |-> DictGet(data, "quantity", ""),
                        pickupDate  |-> DictGet(data, "pickup_date", ""),
                        pickupTime  |-> DictGet(data, "pickup_time", "") ],
             top_n      |-> DictGet(data, "top_n", 5),
             min_rating |-> DictGet(data, "min_rating", "3.5") ]
      [] agent = "carrier_vetting" ->
           [ dot |-> DictGet(data, "dot", ""), mock |-> DictGet(data, "mock", FALSE) ]
      [] agent = "carrier_outreach" ->
           [ carrier_phone |-> DictGet(data, "carrier_phone", DictGet(data, "contact_phone", "")),
             contact_phone |-> DictGet(data, "carrier_phone", DictGet(data, "contact_phone", "")),
             contact_name  |-> DictGet(data, "contact_name", ""),
             carrier_name  |-> DictGet(data, "carrier_name", ""),
             route         |-> DictGet(data, "route", ""),
             volume        |-> DictGet(data, "volume", ""),
             target_rate   |-> DictGet(data, "target_rate", ""),
             market_rate   |-> DictGet(data, "market_rate", ""),
             expected_price |-> DictGet(data, "expected_price", ""),
             max_rate      |-> DictGet(data, "max_rate", ""),
             initiate_call |-> DictGet(data, "initiate_call", TRUE),
             elevenlabs_agent_id |-> DictGet(data, "elevenlabs_agent_id", "") ]
      [] agent = "data_transformer" ->
           [ input_data |-> TransformerInputData(prev), config |-> data ]
      [] OTHER -> data

\* a dispatcher that attaches prev for every agent
AttachesPrev_ForEveryAgent(agent, prev) == prev # NoneVal

\* "if prev_result is not None and isinstance(input_payload, dict) and
\* agent_id != 'data_transformer'" (input_payload is a dict: data is one)
AttachesPrev(agent, prev) == prev # NoneVal /\ agent # "data_transformer"

\* the task_input handed to agent.run
BuildInput(agent, data, prev) ==
    LET shaped == ShapeInput(agent, data, prev)
    IN  IF AttachesPrev(agent, prev) THEN FnPut(shaped, "prev", prev) ELSE shaped

\* a dispatcher that does not keep the output of an invoked node
RecordOutput_Dropped(res, nid, output) == res

\* results[nid] = output
RecordOutput(res, nid, output) == FnPut(res, nid, output)

\* a dispatcher that ends the run at a node it cannot resolve
AfterUnresolvedNode_Abort == "done"

\* print("Unknown custom node ...") / print("Unknown node type ..."), then
\* "continue": the loop goes on
AfterUnresolvedNode == "loop"

\* a dispatcher that logs the failure and goes on to the next node
AfterNodeFailure_Continue == "loop"

\* what the except clause of the node's try does: the run ends with
\* HTTPException(500, "Node {nid} failed: ...")
AfterNodeFailure == "done"

\* a loop that takes the same element of the order again
NextIndex_SameNode(i) == i

\* "for nid in order": the iteration after the one at position i
NextIndex(i) == i + 1

RunCall(pos, nid, agent, tenant, input) ==
    [ pos |-> pos, node |-> nid, agent |-> agent, tenant |-> tenant, input |-> input ]

\* an error response that does not say which node failed
NodeFailed_Anonymous(nid) == [ detail |-> "Node failed" ]

\* detail = f"Node {nid} failed: {exc}"
NodeFailed(nid) == [ detail |-> "Node failed", node |-> nid ]

RunOff ==
    /\ rpc = "idle"
    /\ rreq = NoArg
    /\ rwf = NoArg
    /\ rorder = << >>
    /\ ridx = 0
    /\ results = EmptyFn
    /\ rcalls = << >>
    /\ rfailed = 0
    /\ rresp = NoResponse

RunRespond(status, body) ==
    /\ rresp' = Response(status, body)
    /\ rpc' = "done"

\* run_workflow up to the loop: header check, _load_workflow, _topo_order
\* (the ElevenLabs settings lookup only fills the context)
RunStart(tenant, wf) ==
    /\ rpc = "idle"
    /\ rreq' = [ tenant |-> tenant, wf |-> wf ]
    /\ IF tenant = NoTenant
       THEN /\ RunRespond(400, TenantRequired)
            /\ UNCHANGED << rwf, rorder, ridx, dirs >>
       ELSE LET ds == MakeDirs(dirs, tenant)
            IN  /\ dirs' = ds
                /\ IF LoadStatus(files, ds, tenant, wf) = 404
                   THEN /\ RunRespond(404, LoadBody(files, ds, tenant, wf))
                        /\ UNCHANGED << rwf, rorder, ridx >>
                   ELSE LET obj == LoadBody(files, ds, tenant, wf)
                            nodes == DictGet(obj, "nodes", << >>)
                            edges == DictGet(obj, "edges", << >>)
                        IN  /\ rwf' = [ nodes |-> nodes, edges |-> edges ]
                            /\ rorder' = TopoOrder(nodes, edges)
                            /\ ridx' = 1
                            /\ rpc' = "loop"
                            /\ UNCHANGED rresp
    /\ UNCHANGED << results, rcalls, rfailed >>
    /\ UNCHANGED << sideVars, topoVars, invokeVars, files, owner, oplog, envVars >>

\* a loop that reads the stored definition again at every node
LoadedWorkflow_ReadAgain ==
    LET path == WfPath(rreq.tenant, rreq.wf)
    IN  IF path \in DOMAIN files
        THEN [ nodes |-> DictGet(files[path], "nodes", << >>),
               edges |-> DictGet(files[path], "edges", << >>) ]
        ELSE rwf

\* nodes, edges and id_to_node are locals of run_workflow, bound once from
\* the dict _load_workflow returned
LoadedWorkflow == rwf

\* a dispatcher that starts the call as a task and goes on
AfterDispatch_NotAwaited == "loop"

\* "output = await agent.run(...)": the handler is suspended in the call
AfterDispatch == "calling"

\* one iteration of "for nid in order", up to its continue or its await
RunStep ==
    /\ rpc = "loop"
    /\ ridx <= Len(rorder)
    /\ LET nid == rorder[ridx]
       IN  IF ~HasNode(LoadedWorkflow.nodes, nid)
           THEN \* "if not node: continue"
                /\ ridx' = NextIndex(ridx)
                /\ UNCHANGED << rpc, results, rcalls, rfailed, rresp >>
           ELSE LET node  == NodeById(LoadedWorkflow.nodes, nid)
                    agent == ResolveAgent(node)
                IN  IF node.type = "trigger"
                    THEN /\ results' = FnPut(results, nid, TriggerResult(node))
                         /\ ridx' = NextIndex(ridx)
                         /\ UNCHANGED << rpc, rcalls, rfailed, rresp >>
                    ELSE IF node.type = "output"
                    THEN /\ results' = FnPut(results, nid,
                                             OutputResult(results, LoadedWorkflow.edges, nid))
                         /\ ridx' = NextIndex(ridx)
                         /\ UNCHANGED << rpc, rcalls, rfailed, rresp >>
                    ELSE IF agent = None
                    THEN \* unknown custom node or node type: "continue"
                         /\ ridx' = NextIndex(ridx)
                         /\ rpc' = AfterUnresolvedNode
                         /\ UNCHANGED << results, rcalls, rfailed, rresp >>
                    ELSE IF agent \notin registry
                    THEN \* RuntimeError("Agent ... not found"), caught below
                         /\ rfailed' = ridx
                         /\ rresp' = Response(500, NodeFailed(nid))
                         /\ rpc' = AfterNodeFailure
                         /\ ridx' = IF AfterNodeFailure = "done" THEN ridx ELSE NextIndex(ridx)
                         /\ UNCHANGED << results, rcalls >>
                    ELSE \* output = await agent.run(context=ctx, task_input=...)
                         /\ rcalls' = Append(rcalls,
                                RunCall(ridx, nid, agent, rreq.tenant,
                                        BuildInput(agent, node.data,
                                                   PrevResult(results, LoadedWorkflow.edges, nid))))
                         /\ rpc' = AfterDispatch
                         /\ UNCHANGED << ridx, results, rfailed, rresp >>
    /\ UNCHANGED << rreq, rwf, rorder >>
    /\ UNCHANGED << sideVars, topoVars, invokeVars, storeVars, envVars >>

\* agent.run returns its output, or raises
RunCallReturn(outcome) ==
    /\ rpc = "calling"
    /\ LET nid == rorder[ridx]
           call == rcalls[Len(rcalls)]
       IN  IF outcome = "ok"
           THEN /\ results' = RecordOutput(results, nid, AgentOutput("agent", call.agent))
                /\ ridx' = NextIndex(ridx)
                /\ rpc' = "loop"
                /\ UNCHANGED << rfailed, rresp >>
           ELSE /\ rfailed' = ridx
                /\ rresp' = Response(500, NodeFailed(nid))
                /\ rpc' = AfterNodeFailure
                /\ ridx' = IF AfterNodeFailure = "done" THEN ridx ELSE NextIndex(ridx)
                /\ UNCHANGED results
    /\ UNCHANGED << rreq, rwf, rorder, rcalls >>
    /\ UNCHANGED << sideVars, topoVars, invokeVars, storeVars, envVars >>

\* the loop is over: return {"results": results}
RunFinish ==
    /\ rpc = "loop"
    /\ ridx > Len(rorder)
    /\ RunRespond(200, [ results |-> results ])
    /\ UNCHANGED << rreq, rwf, rorder, ridx, results, rcalls, rfailed >>
    /\ UNCHANGED << sideVars, topoVars, invokeVars, storeVars, envVars >>

(***************************************************************************)
(* Values of the variables a specification does not use.                   *)
(***************************************************************************)
TopoOff ==
    /\ cNodes = << >> /\ cEdges = << >> /\ cOrder = << >> /\ cpc = "off"

StoreOff ==
    /\ files = EmptyFn /\ dirs = {} /\ owner = EmptyFn /\ oplog = << >>

BuildOff ==
    /\ bNode = NoArg /\ bEdges = << >> /\ bResults = EmptyFn /\ bInput = NoArg /\ bpc = "off"

DiscoverOff ==
    /\ dModules = << >> /\ dpos = 0 /\ dpc = "off"

GatewayOff ==
    /\ gpc = "off" /\ greq = NoArg /\ gcredits = 0 /\ gtrack = "none"
    /\ gforwarded = 0 /\ gresp = NoResponse /\ gserved = 0

SideOff == BuildOff /\ DiscoverOff /\ GatewayOff

(***************************************************************************)
(* SpecTopo: _topo_order on every node list and edge list of the bounds.   *)
(***************************************************************************)
\* order = _topo_order(nodes, edges)
Compile ==
    /\ cpc = "input"
    /\ cOrder' = TopoOrder(cNodes, cEdges)
    /\ cpc' = "done"
    /\ UNCHANGED << cNodes, cEdges, sideVars, invokeVars, storeVars, runVars, envVars >>

EnvOff ==
    /\ subs = EmptyFn /\ registry = {} /\ emitted = {}

InitTopo ==
    /\ cNodes \in TopoNodeLists
    /\ cEdges \in TopoEdgeLists
    /\ cOrder = << >>
    /\ cpc = "input"
    /\ InvokeOff /\ StoreOff /\ RunOff /\ EnvOff /\ SideOff

NextTopo == Compile

SpecTopo == InitTopo /\ [][NextTopo]_vars

(***************************************************************************)
(* The environment of a request: the subscriptions the identity service    *)
(* holds and the agents that discovery registered at startup.              *)
(***************************************************************************)
KnownAgents == { "carrier_vetting", "carrier_outreach", "carrier_search" }
SubscriptionChoices == { {}, { "*" }, { "carrier_vetting" } }
RegistryChoices == { KnownAgents, KnownAgents \ { "carrier_search" } }

InitEnv ==
    /\ subs \in [ { TenantA } -> SubscriptionChoices ]
    /\ registry \in RegistryChoices
    /\ emitted = {}

(***************************************************************************)
(* SpecInvoke: one direct request, from its arrival to its response and to *)
(* the end of its background task.                                         *)
(***************************************************************************)
InitInvoke ==
    /\ InvokeOff /\ InitEnv
    /\ TopoOff /\ StoreOff /\ RunOff /\ SideOff

NextInvoke ==
    \/ \E t \in InvokeTenants, a \in InvokeAgentIds : InvokeBegin(t, a)
    \/ \E o \in IdentityOutcomes : EntitleReturn(o)
    \/ \E o \in ExecOutcomes : ExecReturn(o)
    \/ \E o \in PostOutcomes : CallLogReturn(o)
    \/ \E o \in PostOutcomes : MeterReturn(o)
    \/ \E o \in PostOutcomes : MetricsReturn(o)
    \/ \E t \in InvokeTenants, a \in ToolIds : ToolBegin(t, a)
    \/ \E o \in ExecOutcomes : ToolReturn(o)

SpecInvoke == InitInvoke /\ [][NextInvoke]_vars

(***************************************************************************)
(* SpecStore: up to MaxOps store requests by any tenants, one at a time    *)
(* (no handler of the store awaits, so each runs to its end).              *)
(***************************************************************************)
InitStore ==
    /\ StoreOff
    /\ TopoOff /\ InvokeOff /\ RunOff /\ EnvOff /\ SideOff

NextStore ==
    \/ \E t \in StoreTenants, d \in StorePayloads, now \in Stamps : CreateWorkflow(t, d, now)
    \/ \E t \in StoreTenants, w \in PathWfIds, d \in StorePayloads, now \in Stamps :
           UpdateWorkflow(t, w, d, now)
    \/ \E t \in StoreTenants, w \in PathWfIds : GetWorkflow(t, w)
    \/ \E t \in StoreTenants, w \in PathWfIds : DeleteWorkflow(t, w)
    \/ \E t \in StoreTenants : ListWorkflows(t)

SpecStore == InitStore /\ [][NextStore]_vars

(***************************************************************************)
(* SpecRun: one run of a workflow that tenant A has stored.                *)
(***************************************************************************)
RunNodeCatalogue ==
    { [ id |-> "t1", type |-> "trigger", data |-> [ payload |-> "x1" ] ],
      [ id |-> "n1", type |-> "custom",
        data |-> [ label |-> "Carrier Vetting", dot |-> "125550" ] ],
      [ id |-> "n2", type |-> "carrier_search", data |-> EmptyFn ],
      \* a custom node that names no capability, under the id n1 as well
      [ id |-> "n1", type |-> "custom", data |-> [ label |-> "Mystery Step" ] ],
      [ id |-> "o1", type |-> "output", data |-> EmptyFn ] }

RunIds == { n.id : n \in RunNodeCatalogue }
RunNodeLists == SeqsUpTo(RunNodeCatalogue, MaxRunNodes)
\* the edges a stored workflow draws from: the trigger feeds n1 and the
\* output, n1 feeds the output
RunEdgeCatalogue ==
    { TopoEdge("t1", "o1"), TopoEdge("t1", "n1"), TopoEdge("n1", "o1") }
RunEdgeLists == SeqsUpTo(RunEdgeCatalogue, MaxRunEdges)

RunWfId == << "w1" >>

InitRun ==
    /\ \E nodes \in RunNodeLists, edges \in RunEdgeLists :
           files = FnPut(EmptyFn, WfPath(TenantA, RunWfId),
                         StampWorkflow([ name |-> "flow", nodes |-> nodes, edges |-> edges ],
                                       RunWfId, TenantA, 1))
    /\ dirs = MakeDirs({}, TenantA)
    /\ owner = FnPut(EmptyFn, WfPath(TenantA, RunWfId), TenantA)
    /\ oplog = << >>
    /\ RunOff
    \* run_workflow never reads the subscription: the tenant is entitled to
    \* carrier_search and to nothing else
    /\ subs = [ t \in { TenantA } |-> { "carrier_search" } ]
    /\ registry \in RegistryChoices
    /\ emitted = {}
    /\ TopoOff /\ InvokeOff /\ SideOff

NextRun ==
    \/ \E t \in { TenantA, NoTenant } : RunStart(t, RunWfId)
    \/ RunStart(TenantA, << "w0" >>)
    \/ RunStep
    \/ \E o \in ExecOutcomes : RunCallReturn(o)
    \/ RunFinish

SpecRun == InitRun /\ [][NextRun]_vars

(***************************************************************************)
(* SpecBuild: one iteration of the loop of run_workflow for a node "n",    *)
(* up to the input it hands to the capability (or, for an output node, the *)
(* result it records), over edge lists into n and recorded results.        *)
(***************************************************************************)
MaxBuildEdges == 3

\* the node of the iteration, one per input shape
BuildNodeChoices ==
    { [ id |-> "n", type |-> "custom", data |-> [ label |-> "Data Transformer" ] ],
      [ id |-> "n", type |-> "custom",
        data |-> [ label |-> "Carrier Vetting", dot |-> "125550" ] ],
      [ id |-> "n", type |-> "carrier_search", data |-> [ source |-> "Pune" ] ],
      [ id |-> "n", type |-> "carrier_outreach", data |-> [ contact_phone |-> "555" ] ],
      \* a pass-through capability whose configuration has a prev key of its own
      [ id |-> "n", type |-> "api_agent",
        data |-> [ url |-> "u", prev |-> [ own |-> "cfg" ] ] ],
      [ id |-> "n", type |-> "output", data |-> EmptyFn ] }

BuildEdgeCatalogue == { TopoEdge("p", "n"), TopoEdge("q", "n"), TopoEdge("p", "q") }
BuildEdgeLists == SeqsUpTo(BuildEdgeCatalogue, MaxBuildEdges)

\* what results holds for p and q when the iteration starts: nothing, None,
\* an empty dict, a carrier list, a carrier list under "output", anything else
BuildAbsent == [ absent |-> TRUE ]
BuildOutputsP ==
    { BuildAbsent, NoneVal, EmptyFn,
      [ carriers |-> "fromP" ],
      [ output |-> [ carriers |-> "nestedP" ] ],
      [ output |-> [ rows |-> "noCarriers" ] ],
      [ kind |-> "trigger", payload |-> "x1" ] }
BuildOutputsQ == { BuildAbsent, [ carriers |-> "fromQ" ] }
BuildResults(vp, vq) ==
    [ k \in (IF vp = BuildAbsent THEN {} ELSE { "p" })
            \cup (IF vq = BuildAbsent THEN {} ELSE { "q" })
        |-> IF k = "p" THEN vp ELSE vq ]

InitBuild ==
    /\ bNode \in BuildNodeChoices
    /\ bEdges \in BuildEdgeLists
    /\ \E vp \in BuildOutputsP, vq \in BuildOutputsQ : bResults = BuildResults(vp, vq)
    /\ bInput = NoArg
    /\ bpc = "ready"
    /\ TopoOff /\ InvokeOff /\ StoreOff /\ RunOff /\ EnvOff
    /\ DiscoverOff /\ GatewayOff

\* the body of "for nid in order" for the node, from prev_ids to the
\* task_input of agent.run (an output node: to results[nid])
BuildIteration ==
    /\ bpc = "ready"
    /\ bInput' =
          IF bNode.type = "output"
          THEN OutputResult(bResults, bEdges, bNode.id)
          ELSE BuildInput(ResolveAgent(bNode), bNode.data,
                          PrevResult(bResults, bEdges, bNode.id))
    /\ bpc' = "built"
    /\ UNCHANGED << bNode, bEdges, bResults >>
    /\ UNCHANGED << discoverVars, gatewayVars, topoVars, invokeVars, storeVars,
                    runVars, envVars >>

NextBuild == BuildIteration

SpecBuild == InitBuild /\ [][NextBuild]_vars

(***************************************************************************)
(* SpecRunFair: a run over node and edge lists that include self-loops and *)
(* cycles.  The event loop resumes a handler that can go on, and every     *)
(* capability call returns (with an output or with an exception).          *)
(***************************************************************************)
MaxFairNodes == 2
MaxFairEdges == 2

FairNodeCatalogue ==
    { [ id |-> "n1", type |-> "custom",
        data |-> [ label |-> "Carrier Vetting", dot |-> "125550" ] ],
      [ id |-> "n2", type |-> "carrier_search", data |-> EmptyFn ],
      [ id |-> "o1", type |-> "output", data |-> EmptyFn ] }
\* a self-loop, and a cycle between n1 and the output
FairEdgeCatalogue ==
    { TopoEdge("n1", "n1"), TopoEdge("n1", "o1"), TopoEdge("o1", "n1") }

InitRunFair ==
    /\ \E nodes \in SeqsUpTo(FairNodeCatalogue, MaxFairNodes),
          edges \in SeqsUpTo(FairEdgeCatalogue, MaxFairEdges) :
           files = FnPut(EmptyFn, WfPath(TenantA, RunWfId),
                         StampWorkflow([ name |-> "flow", nodes |-> nodes, edges |-> edges ],
                                       RunWfId, TenantA, 1))
    /\ dirs = MakeDirs({}, TenantA)
    /\ owner = FnPut(EmptyFn, WfPath(TenantA, RunWfId), TenantA)
    /\ oplog = << >>
    /\ RunOff
    /\ subs = [ t \in { TenantA } |-> { "carrier_search" } ]
    /\ registry \in RegistryChoices
    /\ emitted = {}
    /\ TopoOff /\ InvokeOff /\ SideOff

NextRunFair ==
    \/ RunStart(TenantA, RunWfId)
    \/ RunStep
    \/ \E o \in ExecOutcomes : RunCallReturn(o)
    \/ RunFinish

SpecRunFair ==
    /\ InitRunFair
    /\ [][NextRunFair]_vars
    /\ WF_vars(RunStep)
    /\ WF_vars(RunFinish)
    /\ WF_vars(\E o \in ExecOutcomes : RunCallReturn(o))

(***************************************************************************)
(* SpecDiscover: AgentRegistry.discover at startup (registry.py).          *)
(*                                                                         *)
(* pkgutil.iter_modules lists the entries of the agents package; an entry  *)
(* is [name, fate], fate being what loading it comes to.  The agent a      *)
(* package builds has the package's name as its id.                        *)
(***************************************************************************)
MaxModules == 3

ModuleNames == KnownAgents
ModuleFates ==
    { "ok",            \* agent.py imports and build_agent() returns an agent
      "not_package",   \* a plain module: "if not module_info.ispkg"
      "no_agent_py",   \* import_module raises ModuleNotFoundError
      "import_raises", \* importing agent.py raises another exception
      "no_build",      \* agent.py has no build_agent
      "build_raises" } \* build_agent() raises
ModuleEntries == [ name : ModuleNames, fate : ModuleFates ]
\* the entries of one directory have distinct names
ModuleLists ==
    { l \in SeqsUpTo(ModuleEntries, MaxModules) :
        \A i, j \in DOMAIN l : l[i].name = l[j].name => i = j }

\* a discovery that gives up at the first module that fails to load
AfterModuleFailure_Stop == "done"

\* "continue" / print(...) in the except clauses: on to the next entry
AfterModuleFailure == "modules"

\* "import agents": on failure discover raises RuntimeError
DiscoverBegin(outcome) ==
    /\ dpc = "start"
    /\ dpc' = IF outcome = "ok" THEN "modules" ELSE "fatal"
    /\ dpos' = IF outcome = "ok" THEN 1 ELSE dpos
    /\ UNCHANGED << dModules, registry, subs, emitted >>
    /\ UNCHANGED << buildVars, gatewayVars, topoVars, invokeVars, storeVars, runVars >>

\* one iteration of "for module_info in pkgutil.iter_modules(...)"
DiscoverModule ==
    /\ dpc = "modules"
    /\ dpos <= Len(dModules)
    /\ LET m == dModules[dpos]
       IN  /\ registry' = IF m.fate = "ok" THEN registry \cup { m.name } ELSE registry
           /\ dpc' = IF m.fate \in { "no_agent_py", "import_raises", "build_raises" }
                     THEN AfterModuleFailure
                     ELSE "modules"
    /\ dpos' = dpos + 1
    /\ UNCHANGED << dModules, subs, emitted >>
    /\ UNCHANGED << buildVars, gatewayVars, topoVars, invokeVars, storeVars, runVars >>

\* the listing is exhausted: discover returns
DiscoverEnd ==
    /\ dpc = "modules"
    /\ dpos > Len(dModules)
    /\ dpc' = "done"
    /\ UNCHANGED << dModules, dpos, registry, subs, emitted >>
    /\ UNCHANGED << buildVars, gatewayVars, topoVars, invokeVars, storeVars, runVars >>

\* registry.get(agent_id): self._agents.get(agent_id)
RegistryGet(agent_id) == IF agent_id \in registry THEN agent_id ELSE None

InitDiscover ==
    /\ dModules \in ModuleLists
    /\ dpos = 0
    /\ dpc = "start"
    /\ EnvOff
    /\ TopoOff /\ InvokeOff /\ StoreOff /\ RunOff /\ BuildOff /\ GatewayOff

NextDiscover ==
    \/ \E o \in { "ok", "raise" } : DiscoverBegin(o)
    \/ DiscoverModule
    \/ DiscoverEnd

SpecDiscover == InitDiscover /\ [][NextDiscover]_vars

(***************************************************************************)
(* SpecGateway: POST /invoke of the API gateway (gateway/app.py), with the *)
(* identity service's /usage/track and the orchestrator as collaborators.  *)
(* Requests are served one after the other; gcredits is what the identity  *)
(* service holds for the API key's user and the service invoked.           *)
(***************************************************************************)
MaxRequests == 3
MaxCredits == 2

GatewayAuth == { "none", "api_key", "bearer" }
\* SERVICE_CREDITS.get(service, 1): every listed service costs 1
CreditsUsed == 1

\* what POST /usage/track comes to: track_usage runs, the key is rejected
\* by get_api_key_user, or the identity service cannot be reached
TrackOutcomes == { "served", "invalid_key", "unreachable" }
\* the status the orchestrator's /invoke answers with
OrchestratorStatuses == { 200, 403, 500 }

GatewayRespond(status) ==
    /\ gresp' = Response(status, NoArg)
    /\ gpc' = "done"

\* invoke_agent up to its first await
GatewayBegin(auth) ==
    /\ gpc \in { "idle", "done" }
    /\ gserved < MaxRequests
    /\ gserved' = gserved + 1
    /\ greq' = [ auth |-> auth, agent |-> "carrier_vetting" ]
    /\ gtrack' = "none"
    /\ IF auth = "none"
       THEN /\ GatewayRespond(401)
            /\ UNCHANGED gforwarded
       ELSE IF auth = "api_key"
       THEN \* await track_service_usage(...): POST /usage/track is in flight
            /\ gpc' = "tracking"
            /\ gresp' = NoResponse
            /\ UNCHANGED gforwarded
       ELSE \* client.post(f"{ORCHESTRATOR_URL}/invoke", ...)
            /\ gpc' = "forwarding"
            /\ gresp' = NoResponse
            /\ gforwarded' = gforwarded + 1
    /\ UNCHANGED gcredits
    /\ UNCHANGED << buildVars, discoverVars, topoVars, invokeVars, storeVars,
                    runVars, envVars >>

\* track_usage of the identity service: 402 when the credits do not cover
\* the request, else the deduction
TrackUsageStatus(credits) == IF credits < CreditsUsed THEN 402 ELSE 200
TrackUsageCredits(credits) ==
    IF credits < CreditsUsed THEN credits
    ELSE IF credits - CreditsUsed > 0 THEN credits - CreditsUsed ELSE 0

\* POST /usage/track answers (or fails) and track_service_usage returns:
\* the json of a success, None for a status >= 400 and for an exception --
\* the HTTPException(402) it raises inside its try included, which its own
\* "except Exception" catches.  invoke_agent does not look at the value and
\* goes on to forward the request.
TrackReturn(outcome) ==
    /\ gpc = "tracking"
    /\ LET status == CASE outcome = "served"      -> TrackUsageStatus(gcredits)
                        [] outcome = "invalid_key" -> 401
                        [] OTHER                   -> 503
       IN  /\ gcredits' = IF outcome = "served" THEN TrackUsageCredits(gcredits)
                          ELSE gcredits
           /\ gtrack' = IF outcome = "unreachable" THEN "failed"
                        ELSE IF status = 402 THEN "402"
                        ELSE IF status >= 400 THEN "failed"
                        ELSE "tracked"
    /\ gpc' = "forwarding"
    /\ gforwarded' = gforwarded + 1
    /\ UNCHANGED gresp
    /\ UNCHANGED << greq, gserved >>
    /\ UNCHANGED << buildVars, discoverVars, topoVars, invokeVars, storeVars,
                    runVars, envVars >>

\* the orchestrator answers: an error status is passed on, a result is
\* returned (after track_bearer_usage for a bearer-only request)
OrchestratorReturn(status) ==
    /\ gpc = "forwarding"
    /\ IF status >= 400
       THEN GatewayRespond(status)
       ELSE IF greq.auth = "bearer"
       THEN gpc' = "bearer_tracking" /\ UNCHANGED gresp
       ELSE GatewayRespond(200)
    /\ UNCHANGED << greq, gcredits, gtrack, gforwarded, gserved >>
    /\ UNCHANGED << buildVars, discoverVars, topoVars, invokeVars, storeVars,
                    runVars, envVars >>

\* track_bearer_usage returns; whatever it came to is only logged
BearerTrackReturn(outcome) ==
    /\ gpc = "bearer_tracking"
    /\ gcredits' = IF outcome = "served" THEN TrackUsageCredits(gcredits) ELSE gcredits
    /\ GatewayRespond(200)
    /\ UNCHANGED << greq, gtrack, gforwarded, gserved >>
    /\ UNCHANGED << buildVars, discoverVars, topoVars, invokeVars, storeVars,
                    runVars, envVars >>

InitGateway ==
    /\ gpc = "idle"
    /\ greq = NoArg
    /\ gcredits \in 0..MaxCredits
    /\ gtrack = "none"
    /\ gforwarded = 0
    /\ gresp = NoResponse
    /\ gserved = 0
    /\ TopoOff /\ InvokeOff /\ StoreOff /\ RunOff /\ EnvOff
    /\ BuildOff /\ DiscoverOff

NextGateway ==
    \/ \E a \in GatewayAuth : GatewayBegin(a)
    \/ \E o \in TrackOutcomes : TrackReturn(o)
    \/ \E st \in OrchestratorStatuses : OrchestratorReturn(st)
    \/ \E o \in TrackOutcomes : BearerTrackReturn(o)

SpecGateway == InitGateway /\ [][NextGateway]_vars

(***************************************************************************)
(* SpecConcurrent: a run of tenant A's workflow w1, interleaved at its     *)
(* awaits with replace and delete requests on the same (tenant, id) and    *)
(* with a direct invoke of tenant A.                                       *)
(***************************************************************************)
\* the definitions w1 is stored with or replaced by: a trigger feeding n1
\* feeding an output, and a two-node flow in which n1 is another capability
ConcurrentDefinitions ==
    { [ name  |-> "flow",
        nodes |-> << [ id |-> "t1", type |-> "trigger", data |-> [ payload |-> "x1" ] ],
                     [ id |-> "n1", type |-> "custom",
                       data |-> [ label |-> "Carrier Vetting", dot |-> "125550" ] ],
                     [ id |-> "o1", type |-> "output", data |-> EmptyFn ] >>,
        edges |-> << TopoEdge("t1", "n1"), TopoEdge("n1", "o1") >> ],
      [ name  |-> "flow",
        nodes |-> << [ id |-> "n1", type |-> "carrier_search", data |-> EmptyFn ],
                     [ id |-> "n2", type |-> "carrier_outreach", data |-> EmptyFn ] >>,
        edges |-> << TopoEdge("n1", "n2") >> ] }

InitConcurrent ==
    /\ \E d \in ConcurrentDefinitions :
           files = FnPut(EmptyFn, WfPath(TenantA, RunWfId),
                         StampWorkflow(d, RunWfId, TenantA, 1))
    /\ dirs = MakeDirs({}, TenantA)
    /\ owner = FnPut(EmptyFn, WfPath(TenantA, RunWfId), TenantA)
    /\ oplog = << >>
    /\ RunOff
    /\ InvokeOff
    /\ subs = [ t \in { TenantA } |-> { "*" } ]
    /\ registry = KnownAgents
    /\ emitted = {}
    /\ TopoOff /\ SideOff

NextConcurrent ==
    \/ RunStart(TenantA, RunWfId)
    \/ RunStep
    \/ \E o \in ExecOutcomes : RunCallReturn(o)
    \/ RunFinish
    \/ \E d \in ConcurrentDefinitions : UpdateWorkflow(TenantA, RunWfId, d, 1)
    \/ DeleteWorkflow(TenantA, RunWfId)
    \/ InvokeBegin(TenantA, "carrier_vetting")
    \/ \E o \in IdentityOutcomes : EntitleReturn(o)
    \/ \E o \in ExecOutcomes : ExecReturn(o)
    \/ \E o \in PostOutcomes : MeterReturn(o)
    \/ \E o \in PostOutcomes : MetricsReturn(o)

SpecConcurrent == InitConcurrent /\ [][NextConcurrent]_vars

(***************************************************************************)
(* Properties of the graph compiler (SpecTopo).                            *)
(***************************************************************************)
\* the ids reachable from x along one or more edges
RECURSIVE ReachFrom(_, _, _)
ReachFrom(edges, frontier, acc) ==
    LET next == { edges[i].target : i \in { j \in DOMAIN edges : edges[j].source \in frontier } }
    IN  IF next \subseteq acc THEN acc
        ELSE ReachFrom(edges, next \ acc, acc \cup next)

Acyclic(edges) ==
    \A i \in DOMAIN edges :
        edges[i].source \notin ReachFrom(edges, { edges[i].source }, {})

DistinctIds(nodes) ==
    \A i, j \in DOMAIN nodes : nodes[i].id = nodes[j].id => i = j

EdgesWithinNodes(nodes, edges) ==
    \A i \in DOMAIN edges :
        /\ HasNode(nodes, edges[i].source)
        /\ HasNode(nodes, edges[i].target)

\* every occurrence of s in the order is before every occurrence of t,
\* and both occur
Before(order, s, t) ==
    /\ \E i \in DOMAIN order : order[i] = s
    /\ \E j \in DOMAIN order : order[j] = t
    /\ \A i, j \in DOMAIN order : order[i] = s /\ order[j] = t => i < j

\* C1: for every workflow with distinct node ids whose edge set is acyclic
\* and names only ids of the node list, the order returned by _topo_order
\* places the source of every edge before its target.
C1_PredecessorsFirst ==
    (/\ cpc = "done"
     /\ DistinctIds(cNodes)
     /\ EdgesWithinNodes(cNodes, cEdges)
     /\ Acyclic(cEdges))
    => \A i \in DOMAIN cEdges : Before(cOrder, cEdges[i].source, cEdges[i].target)

\* how many times an id occurs in a list of ids
Occurrences(order, id) == Cardinality({ j \in DOMAIN order : order[j] = id })

\* C15: for every node list with distinct ids and every edge list (cyclic,
\* incomplete, with self-loops, naming unknown ids), every id of the node
\* list appears exactly once in the order returned by _topo_order.
C15_OrderIsTotal ==
    (cpc = "done" /\ DistinctIds(cNodes)) =>
        \A i \in DOMAIN cNodes : Occurrences(cOrder, cNodes[i].id) = 1

\* a compiled graph of distinct nodes whose edges hold a cycle, a self-loop
\* and an id that is no node
C15_Witness ==
    /\ cpc = "done"
    /\ DistinctIds(cNodes)
    /\ Len(cNodes) >= 2
    /\ ~EdgesWithinNodes(cNodes, cEdges)
    /\ \E i \in DOMAIN cEdges : cEdges[i].source = cEdges[i].target
    /\ \E i, j \in DOMAIN cEdges :
           /\ cEdges[i].source # cEdges[i].target
           /\ cEdges[i].source = cEdges[j].target
           /\ cEdges[i].target = cEdges[j].source

\* C27: the order returned by _topo_order contains only ids of the node
\* list: an edge whose target or source is not a node id never adds an entry.
C27_OrderWithinNodes ==
    cpc = "done" => Range(cOrder) \subseteq Range(NodeIdList(cNodes))

(***************************************************************************)
(* Properties of the workflow runner (SpecRun).                            *)
(***************************************************************************)
\* the subscription allows the agent ("*" or the agent's id)
Entitled(agents, agent) == "*" \in agents \/ agent \in agents

\* the capability call of rcalls[i] has returned
CallReturned(i) == i < Len(rcalls) \/ rpc # "calling"

\* C2: inside a workflow run no capability is executed for a tenant whose
\* subscription does not allow it, and a run that dispatched such a node
\* does not end with a successful RunResult.
C2_RunChecksEntitlement ==
    \A i \in DOMAIN rcalls : Entitled(subs[rcalls[i].tenant], rcalls[i].agent)

\* C5: every capability call made for a node of a workflow run has emitted
\* a metering event for (capability id, tenant) once it has returned.
C5_RunCallsMetered ==
    \A i \in DOMAIN rcalls :
        CallReturned(i) => MeterEvent(rcalls[i].agent, rcalls[i].tenant) \in emitted

\* C6: once a node's capability invocation has failed in a run, no
\* capability is called and no result entry is written any more.
C6_NoDispatchAfterFailure ==
    [][ rfailed # 0 => (rcalls' = rcalls /\ results' = results) ]_vars

\* a capability call failed while a later node of the order is backed by a
\* registered capability, and a result had been recorded before
C6_Witness ==
    /\ rfailed # 0
    /\ rpc = "done"
    /\ rcalls # << >>
    /\ rcalls[Len(rcalls)].pos = rfailed
    /\ DOMAIN results # {}
    /\ \E k \in DOMAIN rorder :
           /\ k > rfailed
           /\ HasNode(rwf.nodes, rorder[k])
           /\ ResolveAgent(NodeById(rwf.nodes, rorder[k])) \in registry

\* the type of the node an id of the stored workflow names
RunNodeType(nid) == NodeById(rwf.nodes, nid).type

RunSucceeded == rpc = "done" /\ rresp.status = 200

\* C11: in every workflow run no capability call is made for a node of type
\* trigger or output, and the result recorded for a trigger node is exactly
\* its configured payload.
C11_TriggerOutputNeverCall ==
    /\ \A i \in DOMAIN rcalls : RunNodeType(rcalls[i].node) \notin { "trigger", "output" }
    /\ \A nid \in DOMAIN results :
           RunNodeType(nid) = "trigger" =>
               /\ DOMAIN results[nid] = { "kind", "payload" }
               /\ results[nid].payload = NodeById(rwf.nodes, nid).data["payload"]

\* a finished run over a trigger, a capability node and an output
C11_Witness ==
    /\ RunSucceeded
    /\ rcalls # << >>
    /\ \E t, o \in DOMAIN results :
           /\ RunNodeType(t) = "trigger"
           /\ RunNodeType(o) = "output"

\* the output nodes of the run's results that have an incoming edge
FedOutputs ==
    { o \in DOMAIN results : RunNodeType(o) = "output" /\ PrevIds(rwf.edges, o) # << >> }

\* C12: in the RunResult of a successful run, every output node o with an
\* incoming edge has results[o].from = p and results[o].value = results[p]
\* (null when p has no entry), p being the source of the last listed edge
\* into o.
C12_OutputReportsPredecessor ==
    RunSucceeded =>
        \A o \in FedOutputs :
            LET p == PrevId(rwf.edges, o)
            IN  /\ results[o].from = p
                /\ results[o].value = DictGet(results, p, NoneVal)

\* the workflow has been loaded by the run
RunLoaded == rwf # NoArg

\* the ids of the loaded workflow whose node resolves to a capability id
\* that the registry does not hold
UnregisteredNodes ==
    { nid \in { rwf.nodes[i].id : i \in DOMAIN rwf.nodes } :
        LET node == NodeById(rwf.nodes, nid)
        IN  /\ node.type \notin { "trigger", "output" }
            /\ ResolveAgent(node) # None
            /\ ResolveAgent(node) \notin registry }

\* C13: a run of an unknown workflow id, or of a workflow that references a
\* capability id absent from the registry, is rejected, and no capability
\* of any node is executed in it.
C13_NotFoundBeforeExecution ==
    /\ (rpc = "done" /\ ~RunLoaded) => (rcalls = << >> /\ results = EmptyFn)
    /\ (RunLoaded /\ UnregisteredNodes # {}) =>
           /\ rcalls = << >>
           /\ rpc = "done" => rresp.status >= 400

\* the ids of the nodes of the loaded workflow
RunNodeIds == { rwf.nodes[i].id : i \in DOMAIN rwf.nodes }

\* the last position of an id in the compiled order
LastPos(id) == CHOOSE i \in DOMAIN rorder : rorder[i] = id /\ \A j \in DOMAIN rorder : rorder[j] = id => j <= i

\* the node p was processed before the output node o was (last) processed
ProcessedBefore(p, o) == \E i \in DOMAIN rorder : rorder[i] = p /\ i < LastPos(o)

\* C16: the RunResult of a successful run has a key for every trigger node,
\* every output node and every node whose capability was invoked, and no
\* other key; the entry of an invoked node is the output its capability
\* returned, and it is the value an output node processed later reports.
C16_ResultKeys ==
    RunSucceeded =>
        /\ rresp.body = [ results |-> results ]
        /\ DOMAIN results =
             { nid \in RunNodeIds : RunNodeType(nid) \in { "trigger", "output" } }
             \cup { rcalls[i].node : i \in DOMAIN rcalls }
        /\ \A i \in DOMAIN rcalls :
               results[rcalls[i].node] = AgentOutput("agent", rcalls[i].agent)
        /\ \A o \in FedOutputs :
               ProcessedBefore(PrevId(rwf.edges, o), o) =>
                   results[o].value = DictGet(results, PrevId(rwf.edges, o), NoneVal)

\* a successful run over a trigger, an invoked node and an output that
\* reports the invoked node
C16_Witness ==
    /\ RunSucceeded
    /\ rcalls # << >>
    /\ \E t \in DOMAIN results : RunNodeType(t) = "trigger"
    /\ \E o \in FedOutputs :
           /\ ProcessedBefore(PrevId(rwf.edges, o), o)
           /\ results[o].value.kind = "agent"

\* the node at position k of the order resolves to no capability
SkippedAt(k) ==
    /\ HasNode(rwf.nodes, rorder[k])
    /\ RunNodeType(rorder[k]) \notin { "trigger", "output" }
    /\ ResolveAgent(NodeById(rwf.nodes, rorder[k])) = None

\* C20: a node that resolves to no capability is skipped without failing
\* the run: no capability is called for it, it gets no key in the results,
\* the run never fails at it, and the step that meets it only moves on to
\* the next node of the order.
C20_UnresolvedNodeIsSkipped ==
    /\ [](RunLoaded =>
             \A k \in DOMAIN rorder :
                 SkippedAt(k) =>
                     /\ rorder[k] \notin DOMAIN results
                     /\ \A i \in DOMAIN rcalls : rcalls[i].node # rorder[k]
                     /\ rfailed # k)
    /\ [][ (rpc = "loop" /\ ridx \in DOMAIN rorder /\ SkippedAt(ridx)) =>
               /\ rpc' = "loop"
               /\ ridx' = ridx + 1
               /\ UNCHANGED << results, rcalls, rfailed, rresp >> ]_vars

\* a finished run that skipped a node and invoked a later node of the order
C20_Witness ==
    /\ RunSucceeded
    /\ \E k \in DOMAIN rorder :
           /\ SkippedAt(k)
           /\ \E i \in DOMAIN rcalls : rcalls[i].pos > k

\* C23: when a node's capability fails inside a run, the run ends with an
\* error response that names the failing node id, and the response carries
\* none of the outputs of the nodes that completed before the failure.
C23_FailureNamesNode ==
    rfailed # 0 =>
        /\ rpc = "done"
        /\ rresp.status = 500
        /\ DictGet(rresp.body, "node", None) = rorder[rfailed]
        /\ DOMAIN rresp.body \subseteq { "detail", "node" }

\* the second capability call of a run fails after the first one returned
\* its output
C23_Witness ==
    /\ rfailed # 0
    /\ Len(rcalls) = 2
    /\ rcalls[2].pos = rfailed
    /\ rcalls[1].node \in DOMAIN results
    /\ rcalls[1].node # rcalls[2].node

\* C28: in every run the capability of each node is invoked at most once,
\* whatever the stored node list and edge list.
C28_InvokedAtMostOnce ==
    \A i, j \in DOMAIN rcalls : rcalls[i].node = rcalls[j].node => i = j

(***************************************************************************)
(* Properties of the direct invocation (SpecInvoke).                       *)
(***************************************************************************)
HandlerDone == ipc = "done"

\* the usage events that report a success: every meter event (the meter is
\* only called after a successful run) and the metrics events with
\* success = true
SuccessEvents == { e \in emitted : e.sink = "meter" \/ (e.sink = "metrics" /\ e.success) }

\* C3: when the entitlement check of a direct invoke returns not-allowed,
\* the capability's run function is never called, no metering or metrics
\* event reporting a success is emitted, and the caller receives 403.
C3_DeniedNeverRuns ==
    iallowed = "denied" =>
        /\ irunCalls = 0
        /\ SuccessEvents = {}
        /\ HandlerDone
        /\ iresp.status = 403

\* the check answered "not allowed" for a registered agent that the
\* subscription of the tenant does not list
C3_Witness ==
    /\ iallowed = "denied"
    /\ HandlerDone
    /\ ireq.id \in registry
    /\ ireq.id \notin subs[ireq.tenant]

\* the response to a tenant whose subscription does not list the agent
PermissionDenied == Response(403, Detail("Subscription does not allow this agent"))

\* C14: when the identity service answers the subscription request with an
\* error status, or the request fails or times out, the capability is not
\* executed and the caller receives the 403 of a tenant that is not entitled.
C14_UnavailableIsDenial ==
    iallowed \in { "denied", "raised" } =>
        /\ irunCalls = 0
        /\ HandlerDone
        /\ iresp = PermissionDenied

\* C4: every invocation that reached the execute step has emitted a usage
\* event that carries its outcome: success = false when the capability
\* raised.
C4_EveryExecutionMetered ==
    (HandlerDone /\ iexec # "unset") =>
        \E e \in emitted :
            /\ e.sink = "metrics"
            /\ e.id = ireq.id
            /\ e.tenant = ireq.tenant
            /\ e.success = (iexec = "ok")

\* what invoke returns for a successful run of the requested agent
InvokeResult == Response(200, [ agent_id |-> ireq.id,
                                 output |-> AgentOutput("agent", ireq.id),
                                 usage |-> "duration_ms" ])

\* C7: when the capability of an invoke succeeded, the response is the
\* agent id, the output and the usage, whatever the metering collector, the
\* monitoring collector and the call-log store answered.
C7_SideEffectsNeverChangeResult ==
    (HandlerDone /\ ireq.kind = "agent" /\ iexec = "ok") => iresp = InvokeResult

\* a successful outreach invocation whose three side effects all failed
C7_Witness ==
    /\ HandlerDone
    /\ ireq.kind = "agent"
    /\ iexec = "ok"
    /\ imeter = "unreachable"
    /\ icalllog = "rejected"
    /\ imetrics = "unreachable"

\* C8: invoke never waits for a metering emission or a call-log write: its
\* handler is never suspended on a pending billing, monitoring or call-log
\* request.
C8_ReturnsWithoutWaiting ==
    /\ ~(ipc = "meter" /\ imeter = "pending")
    /\ ~(ipc = "calllog" /\ icalllog = "pending")

(***************************************************************************)
(* Properties of the workflow store (SpecStore).                           *)
(***************************************************************************)
\* request i is a successful replace and request i + 1 a get by the same
\* tenant of the same id
ReplaceThenGet(i) ==
    /\ i + 1 \in DOMAIN oplog
    /\ oplog[i].op = "update"
    /\ oplog[i].status = 200
    /\ oplog[i + 1].op = "get"
    /\ oplog[i + 1].tenant = oplog[i].tenant
    /\ oplog[i + 1].wf = oplog[i].wf

ServerStamped == { "id", "tenant_id", "updated_at" }

\* C9 as stated: update_workflow(t, id, D) followed by get_workflow(t, id)
\* returns every field of D, except updated_at, with D's value.
C9_RoundTripAllButUpdatedAt ==
    \A i \in DOMAIN oplog :
        ReplaceThenGet(i) =>
            /\ oplog[i + 1].status = 200
            /\ \A k \in DOMAIN oplog[i].arg \ { "updated_at" } :
                   /\ k \in DOMAIN oplog[i + 1].body
                   /\ oplog[i + 1].body[k] = oplog[i].arg[k]

\* C9 amended: the definition returned has the path's id as id, the
\* request's tenant as tenant_id, a server stamp as updated_at, and D's
\* value in every other field, and has no further field.
C9_RoundTripButServerFields ==
    \A i \in DOMAIN oplog :
        ReplaceThenGet(i) =>
            LET d   == oplog[i].arg
                got == oplog[i + 1].body
            IN  /\ oplog[i + 1].status = 200
                /\ DOMAIN got = DOMAIN d \cup ServerStamped
                /\ got["id"] = oplog[i].wf
                /\ got["tenant_id"] = oplog[i].tenant
                /\ got["updated_at"] \in Stamps
                /\ \A k \in DOMAIN d \ ServerStamped : got[k] = d[k]

\* a replace whose payload brings another id, then a get of it
C9_Witness ==
    \E i \in DOMAIN oplog :
        /\ ReplaceThenGet(i)
        /\ "id" \in DOMAIN oplog[i].arg
        /\ oplog[i].arg["id"] # oplog[i].wf
        /\ oplog[i + 1].status = 200

\* the request served by the step, when the step serves one
Served == oplog'[Len(oplog')]

\* C17: every delete_workflow of a tenant succeeds; when the id was absent
\* it leaves the stored workflows unchanged; and after it a get of the same
\* (tenant, id) reports NotFound, however many deletes came before.
C17_DeleteIdempotent ==
    [][ (Len(oplog') = Len(oplog) + 1 /\ Served.op = "delete" /\ Served.tenant # NoTenant) =>
            /\ Served.status = 200
            /\ Served.body = [ deleted |-> TRUE ]
            /\ ~PathExists(files, dirs', Served.tenant, Served.wf) => files' = files
            /\ LoadStatus(files', dirs', Served.tenant, Served.wf) = 404 ]_vars

\* a workflow was stored, deleted, and deleted once more
C17_Witness ==
    \E i \in DOMAIN oplog :
        /\ i > 1
        /\ i + 1 \in DOMAIN oplog
        /\ oplog[i].op = "delete"
        /\ oplog[i].touched # {}
        /\ oplog[i + 1].op = "delete"
        /\ oplog[i + 1].tenant = oplog[i].tenant
        /\ oplog[i + 1].wf = oplog[i].wf
        /\ oplog[i + 1].touched = {}
        /\ oplog[i + 1].status = 200

\* the (tenant, workflow id) keys that a successful create or replace has
\* written so far
WrittenKeys ==
    { << oplog[j].tenant, oplog[j].wf >> :
        j \in { i \in DOMAIN oplog : oplog[i].op \in { "create", "update" } /\ oplog[i].status = 200 } }

\* the step serves a successful create or replace
WriteServed ==
    /\ Len(oplog') = Len(oplog) + 1
    /\ Served.op \in { "create", "update" }
    /\ Served.status = 200

\* C18: under any interleaving of create and replace requests, a write to
\* one (tenant, workflow id) leaves the definition stored by the writers of
\* every other (tenant, workflow id) as it was, and the definition stored under the
\* written key is, in its entirety, the payload of that write (with the
\* server's id, tenant_id and updated_at).
C18_WritersDoNotInterfere ==
    [][ WriteServed =>
            LET t   == Served.tenant
                w   == Served.wf
                got == LoadBody(files', dirs', t, w)
            IN  /\ LoadStatus(files', dirs', t, w) = 200
                /\ \E now \in Stamps : got = StampWorkflow(Served.arg, w, t, now)
                /\ \A k \in WrittenKeys \ { << t, w >> } :
                       LoadBody(files', dirs', k[1], k[2]) = LoadBody(files, dirs', k[1], k[2])
      ]_vars

\* the file that holds the workflow of a (tenant id, workflow id) key
KeyFile(tenant, wf) == WorkflowsRoot \o tenant \o wf

\* C19: after any sequence of create, replace and delete operations, every
\* stored workflow is stored under the key its own tenant_id and id fields
\* name (so there is one stored workflow per key, and a create with a
\* client-supplied id is stored under that id).
C19_StoredUnderOwnKey ==
    \A f \in DOMAIN files : f = KeyFile(files[f]["tenant_id"], files[f]["id"])

\* C10: no request returns, overwrites or deletes a file that the request
\* of another tenant stored.
C10_TenantIsolation ==
    \A i \in DOMAIN oplog : oplog[i].owners \subseteq { oplog[i].tenant }

(***************************************************************************)
(* Properties of the input built for a capability (SpecBuild).             *)
(***************************************************************************)
\* the positions of the edges into the node of the iteration
EdgesInto == { k \in DOMAIN bEdges : bEdges[k].target = bNode.id }
\* the source of the last listed of them, None when there is none
LastSource ==
    IF EdgesInto = {} THEN None
    ELSE bEdges[CHOOSE k \in EdgesInto : \A j \in EdgesInto : j <= k].source
\* what results holds for that source (None when it holds nothing)
LastSourceOutput == DictGet(bResults, LastSource, NoneVal)

\* C21: when several edges target the node, its data predecessor is the
\* source of the last listed of them: the input built for the capability,
\* and the from/value of an output node, are those built from the recorded
\* output of that source alone, whatever the earlier edges into the node.
C21_LastEdgeIsPredecessor ==
    bpc = "built" =>
        IF bNode.type = "output"
        THEN bInput = [ kind |-> "output", from |-> LastSource, value |-> LastSourceOutput ]
        ELSE bInput = BuildInput(ResolveAgent(bNode), bNode.data, LastSourceOutput)

\* two edges into the node from sources with different outputs, the one of
\* the later edge being the one the input carries
C21_Witness ==
    /\ bpc = "built"
    /\ bNode.type = "carrier_search"
    /\ bEdges = << TopoEdge("q", "n"), TopoEdge("p", "n") >>
    /\ "q" \in DOMAIN bResults
    /\ "p" \in DOMAIN bResults /\ bResults["p"] = [ carriers |-> "fromP" ]
    /\ bInput.prev = [ carriers |-> "fromP" ]

\* the capability the node of the iteration resolves to
BuiltAgent == ResolveAgent(bNode)
BuiltForCapability == bpc = "built" /\ bNode.type # "output"

NestsCarriers(value) ==
    /\ value # NoneVal
    /\ "carriers" \notin DOMAIN value
    /\ "output" \in DOMAIN value
    /\ "carriers" \in DOMAIN value["output"]

RunStarted == rpc \in { "loop", "calling" }
RunEnded ==
    /\ rpc = "done"
    /\ \/ rresp.status = 200 /\ "results" \in DOMAIN rresp.body
       \/ rresp.status = 500 /\ rfailed # 0

\* C26: for every node list and edge list, cyclic ones included, the order
\* is compiled and a started run eventually ends, with its results or with
\* the failure of a node, provided every capability call returns.
C26_RunTerminates == RunStarted ~> RunEnded

\* a run over a self-loop and a cycle that called a capability and ended
C26_Witness ==
    /\ RunEnded
    /\ rwf.edges = << TopoEdge("n1", "o1"), TopoEdge("o1", "n1") >>
    /\ Len(rwf.nodes) = 2
    /\ Len(rcalls) >= 1

(***************************************************************************)
(* Properties of discovery (SpecDiscover).                                 *)
(***************************************************************************)
LoadedModules == { dModules[i].name : i \in { j \in DOMAIN dModules : dModules[j].fate = "ok" } }
FailedModules ==
    { dModules[i].name :
        i \in { j \in DOMAIN dModules :
                  dModules[j].fate \in { "no_agent_py", "import_raises", "build_raises" } } }

\* C25: a failure while loading or building one capability module leaves
\* only that capability out of the registry: when discover returns, every
\* module that loads is registered under its id, and get(id) is None for
\* each module that failed.
C25_FailureIsolated ==
    dpc = "done" =>
        /\ \A id \in LoadedModules : RegistryGet(id) = id
        /\ \A id \in FailedModules : RegistryGet(id) = None

\* a listing whose first package fails to build and whose second loads
C25_Witness ==
    /\ dpc = "done"
    /\ Len(dModules) >= 2
    /\ dModules[1].fate = "build_raises"
    /\ dModules[2].fate = "ok"
    /\ RegistryGet(dModules[2].name) = dModules[2].name

(***************************************************************************)
(* Properties of the API gateway (SpecGateway).                            *)
(***************************************************************************)
\* C30: with API-key authentication, when usage tracking reports
\* insufficient credits (402), the request is rejected with 402 and is not
\* forwarded to the orchestrator.
C30_NoCreditsNoForward ==
    (gpc # "idle" /\ greq.auth = "api_key" /\ gtrack = "402") =>
        /\ gpc # "forwarding"
        /\ gpc = "done" => gresp.status = 402

(***************************************************************************)
(* Properties of interleaved requests (SpecConcurrent).                    *)
(***************************************************************************)
\* the step starts a capability call of the run
CallStarts == Len(rcalls') = Len(rcalls) + 1
NewCall == rcalls'[Len(rcalls')]
\* the call has returned its output: the run recorded it
Returned(call) == call.node \in DOMAIN results

\* C24: within one run the nodes are dispatched one at a time in the
\* compiled order: a call starts only when no call of the run is in
\* progress, at a position of the order after the positions of all earlier
\* calls, every one of which has returned; calls of other requests may be
\* in progress meanwhile.
C24_OneCallAtATime ==
    /\ [](rpc = "calling" => Len(rcalls) >= 1 /\ rcalls[Len(rcalls)].pos = ridx)
    /\ [][CallStarts =>
             /\ rpc = "loop" /\ rpc' = "calling"
             /\ NewCall.pos = ridx /\ NewCall.node = rorder[ridx]
             /\ \A i \in DOMAIN rcalls :
                    rcalls[i].pos < NewCall.pos /\ Returned(rcalls[i])]_vars

\* the run's call and the direct invoke's call are in progress together
C24_Witness ==
    /\ rpc = "calling"
    /\ ipc = "exec"
    /\ Len(rcalls) = 2

\* the definition the store holds for the run's workflow, NoArg if none
StoredDefinition ==
    LET path == WfPath(TenantA, RunWfId)
    IN  IF path \in DOMAIN files
        THEN [ nodes |-> DictGet(files[path], "nodes", << >>),
               edges |-> DictGet(files[path], "edges", << >>) ]
        ELSE NoArg

\* C29: a run executes the definition as it was stored when the run
\* started: it loads it once, a replace or delete of the same (tenant, id)
\* leaves the run's nodes, order and state alone, every dispatch is the one
\* the loaded definition gives, and no step of the run changes the store.
C29_RunsLoadedDefinition ==
    /\ [](RunLoaded => rorder = TopoOrder(rwf.nodes, rwf.edges))
    /\ [][/\ (rpc = "idle" /\ rpc' = "loop") => rwf' = StoredDefinition
          /\ rpc # "idle" => rwf' = rwf /\ rorder' = rorder
          /\ files' # files => UNCHANGED runVars
          /\ runVars' # runVars => files' = files
          /\ CallStarts =>
                LET nid  == rorder[ridx]
                    node == NodeById(rwf.nodes, nid)
                IN  /\ HasNode(rwf.nodes, nid)
                    /\ NewCall.node = nid
                    /\ NewCall.agent = ResolveAgent(node)
                    /\ NewCall.input =
                         BuildInput(ResolveAgent(node), node.data,
                                    PrevResult(results, rwf.edges, nid))]_vars

\* the run ended with the outputs of the definition it loaded, after that
\* definition was replaced in the store
C29_Witness ==
    /\ rpc = "done" /\ rresp.status = 200
    /\ Len(rwf.nodes) = 3
    /\ StoredDefinition # NoArg /\ Len(StoredDefinition.nodes) = 2
    /\ DOMAIN results = { "t1", "n1", "o1" }

====
